---------------------------- MODULE Spec2Model ----------------------------
(***************************************************************************)
(* A model of drivers/soc/qcom/smem.c: the Qualcomm shared memory heap.    *)
(*                                                                         *)
(* Shared memory is modelled field by field.  A partition's item area is a  *)
(* map from byte offsets (multiples of 8, relative to the partition        *)
(* header) to 8-byte words; a struct smem_private_entry is two words:      *)
(*   word 0 = <<canary, item, size>>, word 1 = <<padding_data,             *)
(*   padding_hdr, reserved>>.  Words that were never written read as 0.    *)
(* Pointers are byte offsets from the partition header (private path) or   *)
(* from a region's virt_base (global path); they are 64 bit wide in the    *)
(* build modelled here, so pointer arithmetic does not wrap, while the     *)
(* __le32/__le16 fields keep their width.                                  *)
(***************************************************************************)
EXTENDS Integers, Naturals, Sequences, FiniteSets, TLC

\* ------------------------------------------------------------ constants
SMEM_MASTER_SBL_VERSION_INDEX == 7
SMEM_GLOBAL_HEAP_VERSION == 11
SMEM_GLOBAL_PART_VERSION == 12
SMEM_ITEM_LAST_FIXED == 8
SMEM_ITEM_COUNT == 512
SMEM_HOST_APPS == 0
SMEM_GLOBAL_HOST == 65534
SMEM_HOST_COUNT == 13
SMEM_PRIVATE_CANARY == 42405

\* sizeof(struct smem_partition_header), sizeof(struct smem_private_entry)
SIZEOF_PHDR == 32
SIZEOF_ENTRY == 16

\* __le16 fields wrap at 2^16.  The checker's integers end at 2^31 - 1, so
\* a 32 bit value is kept exactly while it is below 2^31, and INT_MAX
\* stands for every value from there up to 2^32 - 1: such a value comes
\* only from a difference that wrapped below zero or from (unsigned)-1, and
\* is only ever compared with the far smaller sizes of the model.
U16 == 65536
INT_MAX == 2147483647
Wrap32(x) == IF x < 0 THEN INT_MAX ELSE x

\* (unsigned)-1: the host argument of a caller that names no remote processor
HOST_NONE == INT_MAX

NULL == 0
\* a 32-bit field value far above every size and offset of the model
Big == 1073741824
\* __smem before bring-up and after teardown
NoHandle == [present |-> FALSE]

\* --------------------------------------------------------------- bounds
\* size of every partition of the boot images, in 8-byte words
PartWords == 8
\* bytes the boot loader left in the global heap, in 8-byte words
AvailWords == 2
\* entries of one partition whose canary a peer may overwrite
MaxCorrupt == 1

PartSize == 8 * PartWords

\* inputs of the consumer API
Hosts == {5, HOST_NONE}
Items == {7, 8, 9, SMEM_ITEM_COUNT}
Sizes == {0, 5}
\* pointers handed to qcom_smem_virt_to_phys: into a partition of region 0,
\* one byte past region 0, and the first byte of the second region
Ptrs == {[region |-> 1, off |-> 8232], [region |-> 1, off |-> 16384],
         [region |-> 2, off |-> 0]}

\* ALIGN(x, a) of include/linux/kernel.h, a a power of two
ALIGN(x, a) == ((x + a - 1) \div a) * a

\* A __le32 field of the partition table is kept as its four bytes, lowest
\* address first.  cpu_to_le32 / le32_to_cpu convert on every build; a read
\* of the field without conversion (NativeU32) yields, on a big-endian
\* build, the bytes taken highest first.
cpu_to_le32(x) ==
    <<x % 256, (x \div 256) % 256, (x \div 65536) % 256, x \div 16777216>>
le32_to_cpu(b) == b[1] + 256 * b[2] + 65536 * b[3] + 16777216 * b[4]
NativeU32(b, be) ==
    IF be THEN b[4] + 256 * b[3] + 65536 * b[2] + 16777216 * b[1]
    ELSE le32_to_cpu(b)

\* ------------------------------------------------------------ variables
VARIABLES
    smem,     \* __smem: NoHandle or the handle
    header,   \* struct smem_header of region 0, without its toc
    toc,      \* header->toc: item |-> slot, unwritten slots read as 0
    ptable,   \* struct smem_ptable found 4kB from the end of region 0
    phdr,     \* entry index |-> struct smem_partition_header
    pmem,     \* entry index |-> (offset |-> word) of the partition
    regions,  \* the memory windows the platform describes
    hwlock,   \* the remote spinlock: "free", "apps" or "remote"
    last,     \* the consumer call that returned last, with its result
    hist,     \* history: <<heap, item>> |-> what its successful alloc saw
    corrupt,  \* history: the <<k, e>> whose canary a peer overwrote
    cpu,      \* the call in flight on this processor, step by step
    big_endian \* the byte order of the build: TRUE with CONFIG_CPU_BIG_ENDIAN

vars == <<smem, header, toc, ptable, phdr, pmem, regions, hwlock, last, hist,
          corrupt, cpu, big_endian>>

shared == <<header, toc, ptable, phdr, pmem>>

\* what the platform and the build fix once and for all
platform == <<regions, big_endian>>

\* ---------------------------------------------------------- boot images
ZeroWord == <<0, 0, 0>>
ZeroSlot == [allocated |-> 0, offset |-> 0, size |-> 0, aux_base |-> 0]

\* One or two windows: "memory-region" and the optional "qcom,rpm-msg-ram".
OneRegion == <<[aux_base |-> 268435456, size |-> 16384]>>
TwoRegions == <<[aux_base |-> 268435456, size |-> 16384],
                [aux_base |-> 393216, size |-> 4096]>>

PtEntry(off, size, h0, h1) ==
    [offset |-> off, size |-> size, host0 |-> h0, host1 |-> h1,
     cacheline |-> 32]

NoInfo == [magic |-> FALSE, num_items |-> 0]

\* a partition no item was allocated in yet
EmptyPart(e) ==
    [hdr |-> [magic |-> TRUE, host0 |-> e.host0, host1 |-> e.host1,
              size |-> e.size, offset_free_uncached |-> SIZEOF_PHDR,
              offset_free_cached |-> e.size],
     mem |-> << >>]

\* a partition of 64 bytes in which the boot loader allocated item 7 with
\* 8 bytes, which leaves less than an entry header free
BootPart(e) ==
    [hdr |-> [magic |-> TRUE, host0 |-> e.host0, host1 |-> e.host1,
              size |-> e.size, offset_free_uncached |-> 56,
              offset_free_cached |-> e.size],
     mem |-> [o \in {32, 40} |->
                IF o = 32 THEN <<SMEM_PRIVATE_CANARY, 7, 8>> ELSE ZeroWord]]

Private5 == PtEntry(8192, 64, 5, SMEM_HOST_APPS)
Private5Live == PtEntry(8192, PartSize, SMEM_HOST_APPS, 5)
GlobalPart == PtEntry(10240, PartSize, SMEM_GLOBAL_HOST, SMEM_GLOBAL_HOST)

\* What the boot loader leaves in region 0: the version of the heap
\* protocol, the global heap, the partition table and the partitions.
BootImages ==
    { \* the oldest layout: a global heap and no partition table
      [version |-> SMEM_GLOBAL_HEAP_VERSION, regions |-> TwoRegions,
       available |-> 8 * AvailWords,
       ptable |-> [magic |-> FALSE, version |-> 0,
                   num_entries |-> cpu_to_le32(0), entry |-> << >>,
                   info |-> NoInfo],
       parts |-> << >>],
      \* an exhausted global heap and a private partition shared with host 5
      [version |-> SMEM_GLOBAL_HEAP_VERSION, regions |-> OneRegion,
       available |-> 0,
       ptable |-> [magic |-> TRUE, version |-> 1,
                   num_entries |-> cpu_to_le32(1), entry |-> <<Private5Live>>,
                   info |-> NoInfo],
       parts |-> <<EmptyPart(Private5Live)>>],
      \* version 12: a global partition, and a private partition that the
      \* boot loader filled
      [version |-> SMEM_GLOBAL_PART_VERSION, regions |-> OneRegion,
       available |-> 0,
       ptable |-> [magic |-> TRUE, version |-> 1,
                   num_entries |-> cpu_to_le32(2),
                   entry |-> <<Private5, GlobalPart>>,
                   info |-> [magic |-> TRUE, num_items |-> SMEM_ITEM_COUNT]],
       parts |-> <<BootPart(Private5), EmptyPart(GlobalPart)>>] }

NoCall == [op |-> "none"]

\* No call in flight.  pc is the place in the call; sb the stores of the
\* program not yet issued, pend those issued and not yet visible to other
\* processors, done those that are; acc is the access to shared memory the
\* last step made and whether the hwlock was held by this processor then,
\* with freed telling that the step read the handle after qcom_smem_remove
\* had freed it; h is the handle as it was when the call tested __smem.
NoAccess == [kind |-> "none", op |-> "none", held |-> FALSE, freed |-> FALSE]
Idle == [pc |-> "idle", op |-> "none", host |-> 0, item |-> 0, size |-> 0,
         heap |-> 0, ret |-> "none", locked |-> FALSE, sb |-> << >>,
         pend |-> {}, done |-> {}, acc |-> NoAccess, h |-> NoHandle]

Init ==
    /\ smem = NoHandle
    /\ \E img \in BootImages :
        /\ header = [initialized |-> 1, reserved |-> 0,
                     version |-> img.version * 65536,
                     free_offset |-> 8448, available |-> img.available]
        /\ ptable = img.ptable
        /\ phdr = [k \in 1..Len(img.parts) |-> img.parts[k].hdr]
        /\ pmem = [k \in 1..Len(img.parts) |-> img.parts[k].mem]
        /\ regions = img.regions
    /\ toc = << >>
    /\ hwlock = "free"
    /\ last = NoCall
    /\ hist = << >>
    /\ corrupt = {}
    /\ cpu = Idle
    /\ big_endian = FALSE

\* ----------------------------------------------------- partition memory
Word(pm, o) == IF o \in DOMAIN pm THEN pm[o] ELSE ZeroWord

canary(pm, e) == Word(pm, e)[1]
item_of(pm, e) == Word(pm, e)[2]
size_of(pm, e) == Word(pm, e)[3]
padding_data(pm, e) == Word(pm, e + 8)[1]
padding_hdr(pm, e) == Word(pm, e + 8)[2]

SetWord(pm, o, w) == [x \in DOMAIN pm \cup {o} |-> IF x = o THEN w ELSE pm[x]]

\* one store to a field of the struct smem_private_entry at e
SetField(pm, e, fld, v) ==
    CASE fld = "canary" -> SetWord(pm, e, [Word(pm, e) EXCEPT ![1] = v])
      [] fld = "item" -> SetWord(pm, e, [Word(pm, e) EXCEPT ![2] = v])
      [] fld = "size" -> SetWord(pm, e, [Word(pm, e) EXCEPT ![3] = v])
      [] fld = "padding_data" ->
            SetWord(pm, e + 8, [Word(pm, e + 8) EXCEPT ![1] = v])
      [] fld = "padding_hdr" ->
            SetWord(pm, e + 8, [Word(pm, e + 8) EXCEPT ![2] = v])

\* the test of the end of the span left out
IN_PARTITION_RANGE_NoEnd(ptr, size, start, end) ==
    /\ ptr >= start
    /\ ptr + size >= ptr

IN_PARTITION_RANGE(ptr, size, start, end) ==
    /\ ptr >= start
    /\ ptr + size >= ptr
    /\ ptr + size <= end

\* offsets are relative to the partition header, so phdr itself is 0
phdr_to_last_uncached_entry(ph) == ph.offset_free_uncached
phdr_to_first_cached_entry(ph, cacheline) ==
    ph.size - ALIGN(SIZEOF_ENTRY, cacheline)
phdr_to_last_cached_entry(ph) == ph.offset_free_cached
phdr_to_first_uncached_entry == SIZEOF_PHDR
uncached_entry_next(pm, e) ==
    e + SIZEOF_ENTRY + padding_hdr(pm, e) + size_of(pm, e)
cached_entry_next(pm, e, cacheline) ==
    e - size_of(pm, e) - ALIGN(SIZEOF_ENTRY, cacheline)
uncached_entry_to_item(pm, e) == e + SIZEOF_ENTRY + padding_hdr(pm, e)
cached_entry_to_item(pm, e) == e - size_of(pm, e)

\* values a corrupted canary takes
BadCanaries == {0}

\* The entries of the forward list: the offsets reached from e by steps of
\* header size + padding_hdr + size that lie wholly below end.
RECURSIVE ForwardEntries(_, _, _)
ForwardEntries(pm, e, end) ==
    IF e + SIZEOF_ENTRY > end THEN {}
    ELSE {e} \cup (IF uncached_entry_next(pm, e) <= e THEN {}
                   ELSE ForwardEntries(pm, uncached_entry_next(pm, e), end))

\* ------------------------------------------------ qcom_smem_alloc_private
\* The loop of qcom_smem_alloc_private: where the walk stops, or the error.
RECURSIVE AllocWalk(_, _, _, _)
AllocWalk(pm, hdr, end, item) ==
    IF ~(hdr < end /\ hdr + SIZEOF_ENTRY < end)
    THEN [ret |-> "OK", hdr |-> hdr]
    ELSE IF canary(pm, hdr) # SMEM_PRIVATE_CANARY
    THEN [ret |-> "CorruptionError", hdr |-> hdr]
    ELSE IF item_of(pm, hdr) = item
    THEN [ret |-> "AlreadyExists", hdr |-> hdr]
    ELSE IF uncached_entry_next(pm, hdr) <= hdr
    THEN [ret |-> "CorruptionError", hdr |-> hdr]
    ELSE AllocWalk(pm, uncached_entry_next(pm, hdr), end, item)

\* A store: field fld of the object at `at` of partition k (k = 0: the
\* global header and its toc) is given val; "wmb" is the barrier between.
St(fld, k, at, val) == [fld |-> fld, k |-> k, at |-> at, val |-> val]

\* The stores of a successful allocation, in program order.
AllocStores(k, hdr, item, size) ==
    << St("canary", k, hdr, SMEM_PRIVATE_CANARY),
       St("item", k, hdr, item % U16),
       St("size", k, hdr, Wrap32(ALIGN(size, 8))),
       St("padding_data", k, hdr, (ALIGN(size, 8) - size) % U16),
       St("padding_hdr", k, hdr, 0),
       St("wmb", k, 0, 0),
       St("offset_free_uncached", k, 0, SIZEOF_ENTRY + ALIGN(size, 8)) >>

\* the header written before the space for it is checked
qcom_smem_alloc_privateWriteFirst(M, k, item, size) ==
    LET entry == M.ptable.entry[k]
        ph == M.phdr[k]
        pm == M.pmem[k]
        p_end == entry.size
        hdr == phdr_to_first_uncached_entry
        end == phdr_to_last_uncached_entry(ph)
        cached == phdr_to_last_cached_entry(ph)
        w == AllocWalk(pm, hdr, end, item)
        alloc_size == SIZEOF_ENTRY + ALIGN(size, 8)
    IN  IF ~IN_PARTITION_RANGE(end, 0, 0, cached) \/ cached > p_end
        THEN [ret |-> "FormatError", stores |-> << >>]
        ELSE IF w.ret # "OK"
        THEN [ret |-> w.ret, stores |-> << >>]
        ELSE IF w.hdr > end
        THEN [ret |-> "CorruptionError", stores |-> << >>]
        ELSE IF w.hdr + alloc_size > cached
        THEN [ret |-> "OutOfSpace",
              stores |-> SubSeq(AllocStores(k, w.hdr, item, size), 1, 5)]
        ELSE [ret |-> "OK", stores |-> AllocStores(k, w.hdr, item, size)]

\* [ret, stores]: the result, and the stores made before returning.
qcom_smem_alloc_private(M, k, item, size) ==
    LET entry == M.ptable.entry[k]
        ph == M.phdr[k]
        pm == M.pmem[k]
        p_end == entry.size
        hdr == phdr_to_first_uncached_entry
        end == phdr_to_last_uncached_entry(ph)
        cached == phdr_to_last_cached_entry(ph)
        w == AllocWalk(pm, hdr, end, item)
        alloc_size == SIZEOF_ENTRY + ALIGN(size, 8)
    IN  IF ~IN_PARTITION_RANGE(end, 0, 0, cached) \/ cached > p_end
        THEN [ret |-> "FormatError", stores |-> << >>]
        ELSE IF w.ret # "OK"
        THEN [ret |-> w.ret, stores |-> << >>]
        ELSE IF w.hdr > end
        THEN [ret |-> "CorruptionError", stores |-> << >>]
        ELSE IF w.hdr + alloc_size > cached
        THEN [ret |-> "OutOfSpace", stores |-> << >>]
        ELSE [ret |-> "OK", stores |-> AllocStores(k, w.hdr, item, size)]

\* -------------------------------------------------- qcom_smem_get_private
NoPtr == [region |-> 0, off |-> 0]
Err(e) == [ret |-> e, ptr |-> NoPtr, len |-> 0]

\* a pointer into region 0, given the offset from the partition header
PartPtr(entry, rel) == [region |-> 1, off |-> entry.offset + rel]

\* the span of the item handed out without the range test
UncachedItemUnchecked(entry, pm, e, uncached_end) ==
    LET e_size == size_of(pm, e)
        pad == padding_data(pm, e)
        entry_size == e_size - pad
        item_ptr == uncached_entry_to_item(pm, e)
    IN  IF ~(e_size < entry.size /\ pad < e_size)
        THEN Err("CorruptionError")
        ELSE [ret |-> "OK", ptr |-> PartPtr(entry, item_ptr),
              len |-> entry_size]

\* the item found at entry e of the uncached list
UncachedItem(entry, pm, e, uncached_end) ==
    LET e_size == size_of(pm, e)
        pad == padding_data(pm, e)
        entry_size == e_size - pad
        item_ptr == uncached_entry_to_item(pm, e)
    IN  IF ~(e_size < entry.size /\ pad < e_size)
        THEN Err("CorruptionError")
        ELSE IF ~IN_PARTITION_RANGE(item_ptr, entry_size, e, uncached_end)
        THEN Err("CorruptionError")
        ELSE [ret |-> "OK", ptr |-> PartPtr(entry, item_ptr),
              len |-> entry_size]

\* The first loop of qcom_smem_get_private; "miss" when the loop ends.
RECURSIVE GetWalk(_, _, _, _, _)
GetWalk(entry, pm, e, uncached_end, item) ==
    IF ~(e < uncached_end /\ e + SIZEOF_ENTRY < uncached_end)
    THEN [ret |-> "miss", ptr |-> NoPtr, len |-> e]
    ELSE IF canary(pm, e) # SMEM_PRIVATE_CANARY
    THEN Err("CorruptionError")
    ELSE IF item_of(pm, e) = item
    THEN UncachedItem(entry, pm, e, uncached_end)
    ELSE IF uncached_entry_next(pm, e) <= e
    THEN Err("CorruptionError")
    ELSE GetWalk(entry, pm, uncached_entry_next(pm, e), uncached_end, item)

\* the item found at entry e of the cached list
CachedItem(entry, pm, e, cached_end) ==
    LET e_size == size_of(pm, e)
        pad == padding_data(pm, e)
        entry_size == e_size - pad
        item_ptr == cached_entry_to_item(pm, e)
    IN  IF ~(e_size < entry.size /\ pad < e_size)
        THEN Err("CorruptionError")
        ELSE IF ~IN_PARTITION_RANGE(item_ptr, entry_size, cached_end, e)
        THEN Err("CorruptionError")
        ELSE [ret |-> "OK", ptr |-> PartPtr(entry, item_ptr),
              len |-> entry_size]

\* The second loop of qcom_smem_get_private.
RECURSIVE GetCachedWalk(_, _, _, _, _)
GetCachedWalk(entry, pm, e, cached_end, item) ==
    IF ~(e > cached_end)
    THEN IF e < 0 THEN Err("CorruptionError") ELSE Err("NotFound")
    ELSE IF canary(pm, e) # SMEM_PRIVATE_CANARY
    THEN Err("CorruptionError")
    ELSE IF item_of(pm, e) = item
    THEN CachedItem(entry, pm, e, cached_end)
    ELSE IF cached_entry_next(pm, e, entry.cacheline) >= e
    THEN Err("CorruptionError")
    ELSE GetCachedWalk(entry, pm, cached_entry_next(pm, e, entry.cacheline),
                       cached_end, item)

qcom_smem_get_private(M, k, item) ==
    LET entry == M.ptable.entry[k]
        ph == M.phdr[k]
        pm == M.pmem[k]
        p_end == entry.size
        e == phdr_to_first_uncached_entry
        uncached_end == phdr_to_last_uncached_entry(ph)
        cached_end == phdr_to_last_cached_entry(ph)
        w == GetWalk(entry, pm, e, uncached_end, item)
        first == phdr_to_first_cached_entry(ph, entry.cacheline)
    IN  IF ~IN_PARTITION_RANGE(uncached_end, 0, 0, cached_end)
           \/ cached_end > p_end
        THEN Err("FormatError")
        ELSE IF w.ret # "miss"
        THEN w
        ELSE IF w.len > uncached_end
        THEN Err("CorruptionError")
        ELSE IF cached_end = p_end
        THEN Err("NotFound")
        ELSE IF ~IN_PARTITION_RANGE(cached_end, 0, uncached_end, p_end)
                \/ ~IN_PARTITION_RANGE(first, SIZEOF_ENTRY, cached_end, p_end)
        THEN Err("CorruptionError")
        ELSE GetCachedWalk(entry, pm, first, cached_end, item)

\* The entry headers qcom_smem_get_private reads, as offsets from the
\* partition header: those of its first loop ...
RECURSIVE ForwardReads(_, _, _, _)
ForwardReads(pm, e, uncached_end, item) ==
    IF ~(e < uncached_end /\ e + SIZEOF_ENTRY < uncached_end) THEN {}
    ELSE IF canary(pm, e) # SMEM_PRIVATE_CANARY \/ item_of(pm, e) = item
            \/ uncached_entry_next(pm, e) <= e
    THEN {e}
    ELSE {e} \cup ForwardReads(pm, uncached_entry_next(pm, e), uncached_end,
                               item)

\* ... those of its second loop ...
RECURSIVE CachedReads(_, _, _, _, _)
CachedReads(pm, e, cached_end, item, cacheline) ==
    IF ~(e > cached_end) THEN {}
    ELSE IF canary(pm, e) # SMEM_PRIVATE_CANARY \/ item_of(pm, e) = item
            \/ cached_entry_next(pm, e, cacheline) >= e
    THEN {e}
    ELSE {e} \cup CachedReads(pm, cached_entry_next(pm, e, cacheline),
                              cached_end, item, cacheline)

\* ... and those of the whole call.
GetReads(M, k, item) ==
    LET entry == M.ptable.entry[k]
        ph == M.phdr[k]
        pm == M.pmem[k]
        p_end == entry.size
        uncached_end == phdr_to_last_uncached_entry(ph)
        cached_end == phdr_to_last_cached_entry(ph)
        w == GetWalk(entry, pm, phdr_to_first_uncached_entry, uncached_end,
                     item)
        fw == ForwardReads(pm, phdr_to_first_uncached_entry, uncached_end,
                           item)
        first == phdr_to_first_cached_entry(ph, entry.cacheline)
    IN  IF ~IN_PARTITION_RANGE(uncached_end, 0, 0, cached_end)
           \/ cached_end > p_end
        THEN {}
        ELSE IF w.ret # "miss" \/ w.len > uncached_end \/ cached_end = p_end
        THEN fw
        ELSE IF ~IN_PARTITION_RANGE(cached_end, 0, uncached_end, p_end)
                \/ ~IN_PARTITION_RANGE(first, SIZEOF_ENTRY, cached_end, p_end)
        THEN fw
        ELSE fw \cup CachedReads(pm, first, cached_end, item, entry.cacheline)

\* ----------------------------------------------------------- global heap
Slot(M, item) == IF item \in DOMAIN M.toc THEN M.toc[item] ELSE ZeroSlot

\* the remaining-bytes counter left as it was
GlobalStoresKeepAvailable(M, item, size) ==
    << St("offset", 0, item, M.header.free_offset),
       St("size", 0, item, Wrap32(size)),
       St("wmb", 0, 0, 0),
       St("allocated", 0, item, 1),
       St("free_offset", 0, 0, size) >>

GlobalStores(M, item, size) ==
    << St("offset", 0, item, M.header.free_offset),
       St("size", 0, item, Wrap32(size)),
       St("wmb", 0, 0, 0),
       St("allocated", 0, item, 1),
       St("free_offset", 0, 0, size),
       St("available", 0, 0, size) >>

qcom_smem_alloc_global(M, item, size) ==
    IF Slot(M, item).allocated # 0
    THEN [ret |-> "AlreadyExists", stores |-> << >>]
    ELSE IF ALIGN(size, 8) > M.header.available
    THEN [ret |-> "OutOfMemory", stores |-> << >>]
    ELSE [ret |-> "OK", stores |-> GlobalStores(M, item, ALIGN(size, 8))]

\* The regions that match the slot's aux_base, in the order of the loop.
RECURSIVE FirstArea(_, _, _)
FirstArea(rg, aux_base, i) ==
    IF i > Len(rg) THEN 0
    ELSE IF rg[i].aux_base = aux_base \/ aux_base = 0 THEN i
    ELSE FirstArea(rg, aux_base, i + 1)

\* the tag compared with its reserved bits left in
qcom_smem_get_globalNoMask(M, rg, item) ==
    LET entry == Slot(M, item)
        i == FirstArea(rg, entry.aux_base, 1)
    IN  IF entry.allocated = 0 THEN Err("NotFound")
        ELSE IF i = 0 THEN Err("NotFound")
        ELSE IF entry.size + entry.offset > rg[i].size
        THEN Err("CorruptionError")
        ELSE [ret |-> "OK", ptr |-> [region |-> i, off |-> entry.offset],
              len |-> entry.size]

qcom_smem_get_global(M, rg, item) ==
    LET entry == Slot(M, item)
        \* entry->aux_base & AUX_BASE_MASK: bits 1:0 are reserved
        aux_base == (entry.aux_base \div 4) * 4
        i == FirstArea(rg, aux_base, 1)
    IN  IF entry.allocated = 0 THEN Err("NotFound")
        ELSE IF i = 0 THEN Err("NotFound")
        ELSE IF entry.size + entry.offset > rg[i].size
        THEN Err("CorruptionError")
        ELSE [ret |-> "OK", ptr |-> [region |-> i, off |-> entry.offset],
              len |-> entry.size]

\* ------------------------------------------------------- stores to memory
SetSlot(M, item, fld, v) ==
    [M EXCEPT !.toc = [x \in DOMAIN M.toc \cup {item} |->
        IF x = item
        THEN CASE fld = "offset" -> [Slot(M, item) EXCEPT !.offset = v]
               [] fld = "size" -> [Slot(M, item) EXCEPT !.size = v]
               [] fld = "allocated" -> [Slot(M, item) EXCEPT !.allocated = v]
        ELSE M.toc[x]]]

\* One store reaching shared memory.
ApplyStore(st, M) ==
    CASE st.fld = "wmb" -> M
      [] st.fld = "offset_free_uncached" ->
            [M EXCEPT !.phdr[st.k].offset_free_uncached = Wrap32(@ + st.val)]
      [] st.fld = "free_offset" ->
            [M EXCEPT !.header.free_offset = Wrap32(@ + st.val)]
      [] st.fld = "available" ->
            [M EXCEPT !.header.available = Wrap32(@ - st.val)]
      [] st.k = 0 -> SetSlot(M, st.at, st.fld, st.val)
      [] OTHER ->
            [M EXCEPT !.pmem[st.k] = SetField(@, st.at, st.fld, st.val)]

RECURSIVE ApplyStores(_, _)
ApplyStores(stores, M) ==
    IF stores = << >> THEN M
    ELSE ApplyStores(Tail(stores), ApplyStore(Head(stores), M))

\* shared memory as one value, and back
Mem == [header |-> header, toc |-> toc, ptable |-> ptable, phdr |-> phdr,
        pmem |-> pmem]

SetMem(M) ==
    /\ header' = M.header
    /\ toc' = M.toc
    /\ ptable' = M.ptable
    /\ phdr' = M.phdr
    /\ pmem' = M.pmem

\* ------------------------------------------------------------- bring-up
qcom_smem_get_sbl_version(M) == M.header.version

\* the reader with one error for both mismatches
qcom_smem_get_ptableOneError(M) ==
    IF ~M.ptable.magic THEN "ENOENT"
    ELSE IF M.ptable.version # 1 THEN "ENOENT"
    ELSE "OK"

\* the table, or the error: -ENOENT without the magic, -EINVAL for a
\* version other than 1
qcom_smem_get_ptable(M) ==
    IF ~M.ptable.magic THEN "ENOENT"
    ELSE IF M.ptable.version # 1 THEN "EINVAL"
    ELSE "OK"

\* What the read of a struct smem_info outside the mapped table can give:
\* a fault, four bytes that are not the magic, or four bytes that happen to
\* be the magic followed by any two bytes.
WildInfo ==
    {[ret |-> "Oops", count |-> 0], [ret |-> "OK", count |-> SMEM_ITEM_COUNT],
     [ret |-> "OK", count |-> U16 - 1]}

\* [ret, count].  The descriptor is looked for at
\* &ptable->entry[ptable->num_entries], the __le32 field read without
\* le32_to_cpu: on a big-endian build the index is the byte-swapped count,
\* which for every count from 1 to 2^24 - 1 lies beyond the table and the
\* window, and what is read there is wild.
qcom_smem_get_item_count(M, be, wild) ==
    IF qcom_smem_get_ptable(M) # "OK"
    THEN [ret |-> "OK", count |-> SMEM_ITEM_COUNT]
    ELSE IF NativeU32(M.ptable.num_entries, be)
                # le32_to_cpu(M.ptable.num_entries)
    THEN wild
    ELSE IF ~M.ptable.info.magic
    THEN [ret |-> "OK", count |-> SMEM_ITEM_COUNT]
    ELSE [ret |-> "OK", count |-> M.ptable.info.num_items]

\* TRUE when the header of partition k is the one its table entry describes
qcom_smem_partition_header(M, k, host0, host1) ==
    LET h == M.phdr[k]
    IN  /\ h.magic
        /\ host0 = h.host0
        /\ host1 = h.host1
        /\ h.size = M.ptable.entry[k].size
        /\ ~(h.offset_free_uncached > h.size)

\* the first entry of the table that names the global host twice, or 0
RECURSIVE FindGlobal(_, _)
FindGlobal(M, i) ==
    IF i > le32_to_cpu(M.ptable.num_entries) THEN 0
    ELSE LET e == M.ptable.entry[i]
         IN  IF e.offset # 0 /\ e.size # 0 /\ e.host0 = SMEM_GLOBAL_HOST
                /\ e.host1 = SMEM_GLOBAL_HOST
             THEN i
             ELSE FindGlobal(M, i + 1)

\* the global partition taken without a look at its header
qcom_smem_set_global_partitionNoHeader(M) ==
    LET i == FindGlobal(M, 1)
    IN  IF qcom_smem_get_ptable(M) # "OK"
        THEN [ret |-> qcom_smem_get_ptable(M), entry |-> NULL]
        ELSE IF i = 0 THEN [ret |-> "EINVAL", entry |-> NULL]
        ELSE [ret |-> "OK", entry |-> i]

\* [ret, entry]: the global partition entry the handle gets
qcom_smem_set_global_partition(M) ==
    LET i == FindGlobal(M, 1)
    IN  IF qcom_smem_get_ptable(M) # "OK"
        THEN [ret |-> qcom_smem_get_ptable(M), entry |-> NULL]
        ELSE IF i = 0 THEN [ret |-> "EINVAL", entry |-> NULL]
        ELSE IF ~qcom_smem_partition_header(M, i, SMEM_GLOBAL_HOST,
                                            SMEM_GLOBAL_HOST)
        THEN [ret |-> "EINVAL", entry |-> NULL]
        ELSE [ret |-> "OK", entry |-> i]

NoEntries == [h \in 0..(SMEM_HOST_COUNT - 1) |-> NULL]

\* the loop of qcom_smem_enumerate_partitions from entry i on
RECURSIVE Enumerate(_, _, _, _)
Enumerate(M, local_host, i, pe) ==
    IF i > le32_to_cpu(M.ptable.num_entries)
    THEN [ret |-> "OK", entries |-> pe]
    ELSE LET e == M.ptable.entry[i]
             remote_host == IF e.host0 = local_host THEN e.host1 ELSE e.host0
         IN  IF e.offset = 0 \/ e.size = 0
             THEN Enumerate(M, local_host, i + 1, pe)
             ELSE IF e.host0 # local_host /\ e.host1 # local_host
             THEN Enumerate(M, local_host, i + 1, pe)
             ELSE IF remote_host >= SMEM_HOST_COUNT
             THEN [ret |-> "EINVAL", entries |-> pe]
             ELSE IF pe[remote_host] # NULL
             THEN [ret |-> "EINVAL", entries |-> pe]
             ELSE IF ~qcom_smem_partition_header(M, i, e.host0, e.host1)
             THEN [ret |-> "EINVAL", entries |-> pe]
             ELSE Enumerate(M, local_host, i + 1,
                            [pe EXCEPT ![remote_host] = i])

qcom_smem_enumerate_partitions(M, local_host) ==
    IF qcom_smem_get_ptable(M) # "OK"
    THEN [ret |-> qcom_smem_get_ptable(M), entries |-> NoEntries]
    ELSE Enumerate(M, local_host, 1, NoEntries)

\* bring-up that takes the item count from the descriptor for the legacy
\* version too
qcom_smem_probeCountAlways(M, rg, hwlock_ok, be, wild) ==
    LET version == qcom_smem_get_sbl_version(M) \div 65536
        g == qcom_smem_set_global_partition(M)
        ic == qcom_smem_get_item_count(M, be, wild)
        en == qcom_smem_enumerate_partitions(M, SMEM_HOST_APPS)
        handle(gp, count) ==
            [present |-> TRUE, global_partition_entry |-> gp,
             ptable_entries |-> en.entries,
             item_count |-> count, num_regions |-> Len(rg)]
        rest(gp, count) ==
            IF en.ret # "OK" /\ en.ret # "ENOENT"
            THEN [ret |-> en.ret, smem |-> NoHandle]
            ELSE IF ~hwlock_ok THEN [ret |-> "ENXIO", smem |-> NoHandle]
            ELSE [ret |-> "OK", smem |-> handle(gp, count)]
    IN  IF M.header.initialized # 1 \/ M.header.reserved # 0
        THEN [ret |-> "EINVAL", smem |-> NoHandle]
        ELSE IF ic.ret # "OK" THEN [ret |-> ic.ret, smem |-> NoHandle]
        ELSE IF version = SMEM_GLOBAL_PART_VERSION
        THEN IF g.ret # "OK" THEN [ret |-> g.ret, smem |-> NoHandle]
             ELSE rest(g.entry, ic.count)
        ELSE IF version = SMEM_GLOBAL_HEAP_VERSION
        THEN rest(NULL, ic.count)
        ELSE [ret |-> "EINVAL", smem |-> NoHandle]

\* [ret, smem]: the handle qcom_smem_probe builds; hwlock_ok is whether
\* the platform hands out the hwspinlock, be the byte order of the build
\* and wild what a read outside the table gives.
qcom_smem_probe(M, rg, hwlock_ok, be, wild) ==
    LET version == qcom_smem_get_sbl_version(M) \div 65536
        g == qcom_smem_set_global_partition(M)
        ic == qcom_smem_get_item_count(M, be, wild)
        en == qcom_smem_enumerate_partitions(M, SMEM_HOST_APPS)
        handle(gp, count) ==
            [present |-> TRUE, global_partition_entry |-> gp,
             ptable_entries |-> en.entries,
             item_count |-> count, num_regions |-> Len(rg)]
        rest(gp, count) ==
            IF en.ret # "OK" /\ en.ret # "ENOENT"
            THEN [ret |-> en.ret, smem |-> NoHandle]
            ELSE IF ~hwlock_ok THEN [ret |-> "ENXIO", smem |-> NoHandle]
            ELSE [ret |-> "OK", smem |-> handle(gp, count)]
    IN  IF M.header.initialized # 1 \/ M.header.reserved # 0
        THEN [ret |-> "EINVAL", smem |-> NoHandle]
        ELSE IF version = SMEM_GLOBAL_PART_VERSION
        THEN IF g.ret # "OK" THEN [ret |-> g.ret, smem |-> NoHandle]
             ELSE IF ic.ret # "OK" THEN [ret |-> ic.ret, smem |-> NoHandle]
             ELSE rest(g.entry, ic.count)
        ELSE IF version = SMEM_GLOBAL_HEAP_VERSION
        THEN rest(NULL, SMEM_ITEM_COUNT)
        ELSE [ret |-> "EINVAL", smem |-> NoHandle]

\* ------------------------------------------------------------- routing
\* The heap a call is routed to: a partition table entry, or 0 for the
\* global heap.  One definition per consumer function.
AllocRoute(h, host) ==
    IF host < SMEM_HOST_COUNT /\ h.ptable_entries[host] # NULL
    THEN h.ptable_entries[host]
    ELSE IF h.global_partition_entry # NULL
    THEN h.global_partition_entry
    ELSE 0

GetRouteGlobalFirst(h, host) ==
    IF h.global_partition_entry # NULL
    THEN h.global_partition_entry
    ELSE IF host < SMEM_HOST_COUNT /\ h.ptable_entries[host] # NULL
    THEN h.ptable_entries[host]
    ELSE 0

GetRoute(h, host) ==
    IF host < SMEM_HOST_COUNT /\ h.ptable_entries[host] # NULL
    THEN h.ptable_entries[host]
    ELSE IF h.global_partition_entry # NULL
    THEN h.global_partition_entry
    ELSE 0

FreeSpaceRoute(h, host) ==
    IF host < SMEM_HOST_COUNT /\ h.ptable_entries[host] # NULL
    THEN h.ptable_entries[host]
    ELSE IF h.global_partition_entry # NULL
    THEN h.global_partition_entry
    ELSE 0

\* -------------------------------------------------------- consumer API
\* Results carry the name of the return site; the errno each returns is
\*   NotReady -EPROBE_DEFER, Reserved / OutOfRange / FormatError /
\*   CorruptionError -EINVAL, LockTimeout the error of
\*   hwspin_lock_timeout_irqsave, AlreadyExists -EEXIST, OutOfSpace -ENOSPC,
\*   OutOfMemory -ENOMEM, NotFound -ENXIO or -ENOENT.
\* heap is the heap the call reached (-1: none, 0: the global heap, k > 0:
\* the partition of table entry k); locked is whether it took the hwlock.
NoHeap == 0 - 1

AllocRet(ret, stores, heap, locked) ==
    [ret |-> ret, stores |-> stores, heap |-> heap, locked |-> locked]

\* the items only the boot loader allocates
IsFixedItemOffByOne(item) == item < SMEM_ITEM_LAST_FIXED - 1
IsFixedItem(item) == item < SMEM_ITEM_LAST_FIXED

\* the allocation made before the lock is asked for
qcom_smem_allocLockLate(h, M, lk, host, item, size) ==
    IF h = NoHandle THEN AllocRet("NotReady", << >>, NoHeap, FALSE)
    ELSE IF IsFixedItem(item)
    THEN AllocRet("Reserved", << >>, NoHeap, FALSE)
    ELSE IF item >= h.item_count
    THEN AllocRet("OutOfRange", << >>, NoHeap, FALSE)
    ELSE LET k == AllocRoute(h, host)
             r == IF k # 0 THEN qcom_smem_alloc_private(M, k, item, size)
                  ELSE qcom_smem_alloc_global(M, item, size)
         IN  IF lk # "free"
             THEN AllocRet("LockTimeout", r.stores, NoHeap, FALSE)
             ELSE AllocRet(r.ret, r.stores, k, TRUE)

qcom_smem_alloc(h, M, lk, host, item, size) ==
    IF h = NoHandle THEN AllocRet("NotReady", << >>, NoHeap, FALSE)
    ELSE IF IsFixedItem(item)
    THEN AllocRet("Reserved", << >>, NoHeap, FALSE)
    ELSE IF item >= h.item_count
    THEN AllocRet("OutOfRange", << >>, NoHeap, FALSE)
    ELSE IF lk # "free"
    THEN AllocRet("LockTimeout", << >>, NoHeap, FALSE)
    ELSE LET k == AllocRoute(h, host)
             r == IF k # 0 THEN qcom_smem_alloc_private(M, k, item, size)
                  ELSE qcom_smem_alloc_global(M, item, size)
         IN  AllocRet(r.ret, r.stores, k, TRUE)

GetRet(r, heap, locked) ==
    [ret |-> r.ret, ptr |-> r.ptr, len |-> r.len, heap |-> heap,
     locked |-> locked]

qcom_smem_get(h, M, rg, lk, host, item) ==
    IF h = NoHandle THEN GetRet(Err("NotReady"), NoHeap, FALSE)
    ELSE IF item >= h.item_count
    THEN GetRet(Err("OutOfRange"), NoHeap, FALSE)
    ELSE IF lk # "free"
    THEN GetRet(Err("LockTimeout"), NoHeap, FALSE)
    ELSE LET k == GetRoute(h, host)
             r == IF k # 0 THEN qcom_smem_get_private(M, k, item)
                  ELSE qcom_smem_get_global(M, rg, item)
         IN  GetRet(r, k, TRUE)

\* [ret, val, heap, locked]; val is the number of bytes when ret is "OK"
qcom_smem_get_free_space(h, M, rg, host) ==
    IF h = NoHandle
    THEN [ret |-> "NotReady", val |-> 0, heap |-> NoHeap, locked |-> FALSE]
    ELSE LET k == FreeSpaceRoute(h, host)
             ret == IF k # 0
                    THEN Wrap32(M.phdr[k].offset_free_cached
                                - M.phdr[k].offset_free_uncached)
                    ELSE M.header.available
             limit == IF k # 0 THEN M.ptable.entry[k].size ELSE rg[1].size
         IN  IF ret > limit
             THEN [ret |-> "FormatError", val |-> 0, heap |-> k,
                   locked |-> FALSE]
             ELSE [ret |-> "OK", val |-> ret, heap |-> k, locked |-> FALSE]

\* The outcomes of qcom_smem_virt_to_phys(p): "OK" with the physical
\* address, "none" (0) for a pointer inside no region.  The function reads
\* __smem->num_regions without testing __smem: with the handle absent that
\* is a read through a null pointer, which faults ("Oops") or, where page 0
\* reads as zeroes, finds no region.
qcom_smem_virt_to_phys(h, rg, p) ==
    IF h = NoHandle
    THEN {[ret |-> "Oops", phys |-> 0], [ret |-> "none", phys |-> 0]}
    ELSE IF p.region \in 1..h.num_regions /\ p.off < rg[p.region].size
    THEN {[ret |-> "OK", phys |-> rg[p.region].aux_base + p.off]}
    ELSE {[ret |-> "none", phys |-> 0]}

\* ------------------------------------------------------------- history
\* What a successful alloc leaves in hist, once per <<heap, item>>: the
\* size asked for and what the get that follows it at once returns.
\* span is the bytes [lo, hi) the allocation took: header and payload in
\* a partition, payload in the global heap.
Remember(key, size, g, span) ==
    IF key \in DOMAIN hist THEN hist
    ELSE [x \in DOMAIN hist \cup {key} |->
            IF x = key THEN [size |-> size, get |-> g, span |-> span]
            ELSE hist[x]]

\* the bytes a successful allocation takes, from its stores
Span(r, M, size) ==
    IF r.heap > 0
    THEN [lo |-> r.stores[1].at,
          hi |-> r.stores[1].at + SIZEOF_ENTRY + ALIGN(size, 8)]
    ELSE [lo |-> M.header.free_offset,
          hi |-> M.header.free_offset + ALIGN(size, 8)]

\* the entries of partition k whose canary is still the one a peer wrote
Corrupted(k) ==
    {e \in {c[2] : c \in {x \in corrupt : x[1] = k}} :
        canary(pmem[k], e) # SMEM_PRIVATE_CANARY}

\* the get of the heap itself: what a get routed to it returns
HeapGet(M, rg, heap, item) ==
    IF heap # 0 THEN qcom_smem_get_private(M, heap, item)
    ELSE qcom_smem_get_global(M, rg, item)

\* offset_free_cached - offset_free_uncached of a partition, 0 otherwise
Gap(M, heap) ==
    IF heap > 0
    THEN M.phdr[heap].offset_free_cached - M.phdr[heap].offset_free_uncached
    ELSE 0

\* -------------------------------------------------------------- actions
Probe ==
    /\ smem = NoHandle
    /\ \E hwlock_ok \in BOOLEAN, wild \in WildInfo :
        LET r == qcom_smem_probe(Mem, regions, hwlock_ok, big_endian, wild)
        IN  /\ smem' = r.smem
            /\ last' = [op |-> "probe", ret |-> r.ret, lock_ok |-> hwlock_ok]
    /\ UNCHANGED <<shared, platform, hwlock, hist, corrupt, cpu>>

Remove ==
    /\ smem # NoHandle
    /\ smem' = NoHandle
    /\ last' = [op |-> "remove"]
    /\ UNCHANGED <<shared, platform, hwlock, hist, corrupt, cpu>>

Alloc ==
    \E host \in Hosts, item \in Items, size \in Sizes :
        LET r == qcom_smem_alloc(smem, Mem, hwlock, host, item, size)
            M2 == ApplyStores(r.stores, Mem)
            g == HeapGet(M2, regions, r.heap, item)
        IN  /\ SetMem(M2)
            /\ last' = [op |-> "alloc", host |-> host, item |-> item,
                        size |-> size, ret |-> r.ret, heap |-> r.heap,
                        locked |-> r.locked,
                        had |-> <<r.heap, item>> \in DOMAIN hist,
                        gap0 |-> Gap(Mem, r.heap), wrote |-> M2 # Mem,
                        end0 |-> IF r.heap > 0
                                 THEN phdr[r.heap].offset_free_uncached
                                 ELSE header.free_offset,
                        hdr |-> IF r.stores # << >> THEN r.stores[1].at
                                ELSE 0]
            /\ hist' = IF r.ret = "OK"
                       THEN Remember(<<r.heap, item>>, size, g,
                                     Span(r, Mem, size))
                       ELSE hist
            /\ UNCHANGED <<smem, platform, hwlock, corrupt, cpu>>

Get ==
    \E host \in Hosts, item \in Items :
        LET r == qcom_smem_get(smem, Mem, regions, hwlock, host, item)
        IN  /\ last' = [op |-> "get", host |-> host, item |-> item,
                        ret |-> r.ret, ptr |-> r.ptr, len |-> r.len,
                        heap |-> r.heap, locked |-> r.locked]
            /\ UNCHANGED <<smem, shared, platform, hwlock, hist, corrupt, cpu>>

FreeSpace ==
    \E host \in Hosts :
        LET r == qcom_smem_get_free_space(smem, Mem, regions, host)
        IN  /\ last' = [op |-> "free_space", host |-> host, ret |-> r.ret,
                        val |-> r.val, heap |-> r.heap, locked |-> r.locked]
            /\ UNCHANGED <<smem, shared, platform, hwlock, hist, corrupt, cpu>>

VirtToPhys ==
    \E p \in Ptrs :
        \E r \in qcom_smem_virt_to_phys(smem, regions, p) :
            /\ last' = [op |-> "virt_to_phys", ptr |-> p, ret |-> r.ret,
                        phys |-> r.phys]
            /\ UNCHANGED <<smem, shared, platform, hwlock, hist, corrupt, cpu>>

\* another processor takes and releases the hardware lock
RemoteLock ==
    /\ hwlock = "free"
    /\ hwlock' = "remote"
    /\ last' = [op |-> "peer"]
    /\ UNCHANGED <<smem, shared, platform, hist, corrupt, cpu>>

RemoteUnlock ==
    /\ hwlock = "remote"
    /\ hwlock' = "free"
    /\ last' = [op |-> "peer"]
    /\ UNCHANGED <<smem, shared, platform, hist, corrupt, cpu>>

\* a peer (or stale memory) overwrites the canary of a forward entry
CorruptCanary ==
    \E k \in DOMAIN pmem, bad \in BadCanaries :
        \E e \in ForwardEntries(pmem[k], SIZEOF_PHDR,
                                phdr[k].offset_free_uncached) :
            /\ Cardinality(Corrupted(k)) < MaxCorrupt
            /\ canary(pmem[k], e) = SMEM_PRIVATE_CANARY
            /\ pmem' = [pmem EXCEPT ![k] = SetField(@, e, "canary", bad)]
            /\ corrupt' = corrupt \cup {<<k, e>>}
            /\ last' = [op |-> "peer"]
            /\ UNCHANGED <<smem, header, toc, ptable, phdr, platform, hwlock,
                           hist, cpu>>

Next ==
    \/ Probe
    \/ Remove
    \/ Alloc
    \/ Get
    \/ FreeSpace
    \/ VirtToPhys
    \/ RemoteLock
    \/ RemoteUnlock
    \/ CorruptCanary

Spec == Init /\ [][Next]_vars

\* ------------------------------------------------- one call, step by step
\* The same calls as above, taken one step at a time on this processor:
\* the checks before the lock, hwspin_lock_timeout_irqsave, the body (its
\* reads, and the stores it decides on), the stores becoming visible to
\* the other processors, hwspin_unlock_irqrestore and the return.  Stores
\* between two barriers become visible in any order; stores after a wmb()
\* only once those before it are visible.

\* which calls take the hwlock around their body
NeedsLockAllocOnly(op) == op = "alloc"
NeedsLock(op) == op \in {"alloc", "get"}

\* What a call returns before it reaches its lock, "pass" if it goes on:
\* the outcome of the call when the lock cannot be had.
Precheck(op, host, item, size) ==
    LET r == CASE op = "alloc" ->
                    qcom_smem_alloc(smem, Mem, "remote", host, item, size).ret
               [] op = "get" ->
                    qcom_smem_get(smem, Mem, regions, "remote", host, item).ret
               [] OTHER -> IF smem = NoHandle THEN "NotReady"
                           ELSE "LockTimeout"
    IN  IF r = "LockTimeout" THEN "pass" ELSE r

\* The handle a step of the call in flight reads: __smem, or, once
\* qcom_smem_remove has freed it, what the freed memory still holds.
Handle(c) == IF smem # NoHandle THEN smem ELSE c.h

\* [ret, heap, stores] of the body of the call in flight
Body(c) ==
    CASE c.op = "alloc" ->
            LET r == qcom_smem_alloc(Handle(c), Mem, "free", c.host, c.item,
                                     c.size)
            IN  [ret |-> r.ret, heap |-> r.heap, stores |-> r.stores]
      [] c.op = "get" ->
            LET r == qcom_smem_get(Handle(c), Mem, regions, "free", c.host,
                                   c.item)
            IN  [ret |-> r.ret, heap |-> r.heap, stores |-> << >>]
      [] OTHER ->
            LET r == qcom_smem_get_free_space(Handle(c), Mem, regions, c.host)
            IN  [ret |-> r.ret, heap |-> r.heap, stores |-> << >>]

\* the stores up to the first wmb() of a program, and the program after it
FirstWmb(sb) ==
    IF \E i \in 1..Len(sb) : sb[i].fld = "wmb"
    THEN CHOOSE i \in 1..Len(sb) :
            sb[i].fld = "wmb" /\ \A j \in 1..(i - 1) : sb[j].fld # "wmb"
    ELSE Len(sb) + 1

Batch(sb) == {sb[i] : i \in 1..(FirstWmb(sb) - 1)}

Rest(sb) == SubSeq(sb, FirstWmb(sb) + 1, Len(sb))

Access(kind) ==
    [kind |-> kind, op |-> cpu.op, held |-> hwlock = "apps", freed |-> FALSE]

\* a step that reads the handle: after the free, a use of freed memory
HandleRead(kind) == [Access(kind) EXCEPT !.freed = smem = NoHandle]

\* The read of a freed handle that faults: the calling task dies where it
\* is, with whatever it holds.
Oops ==
    /\ smem = NoHandle
    /\ cpu' = [Idle EXCEPT !.pc = "dead", !.op = cpu.op,
                           !.acc = HandleRead("none")]
    /\ UNCHANGED <<smem, shared, platform, hwlock, last, hist, corrupt>>

Return(op, host, item, ret) ==
    /\ last' = [op |-> op, host |-> host, item |-> item, ret |-> ret]
    /\ cpu' = Idle

CallStart ==
    /\ cpu.pc = "idle"
    /\ \E op \in {"alloc", "get", "free_space"}, host \in Hosts,
          item \in Items, size \in Sizes :
        /\ op # "alloc" => size = 0
        /\ op = "free_space" => item = SMEM_ITEM_COUNT
        /\ IF Precheck(op, host, item, size) # "pass"
           THEN Return(op, host, item, Precheck(op, host, item, size))
           ELSE /\ cpu' = [Idle EXCEPT
                            !.pc = IF NeedsLock(op) THEN "lock" ELSE "body",
                            !.op = op, !.host = host, !.item = item,
                            !.size = size, !.h = smem]
                /\ UNCHANGED last
    /\ UNCHANGED <<smem, shared, platform, hwlock, hist, corrupt>>

\* hwspin_lock_timeout_irqsave: the lock, or the timeout while a peer
\* holds it
LockStep ==
    /\ cpu.pc = "lock"
    /\ \/ /\ IF hwlock = "free"
             THEN /\ hwlock' = "apps"
                  /\ cpu' = [cpu EXCEPT !.pc = "body", !.locked = TRUE,
                                        !.acc = HandleRead("none")]
                  /\ UNCHANGED last
             ELSE /\ last' = [op |-> cpu.op, host |-> cpu.host,
                              item |-> cpu.item, ret |-> "LockTimeout"]
                  /\ cpu' = [Idle EXCEPT !.acc = HandleRead("none")]
                  /\ UNCHANGED hwlock
          /\ UNCHANGED <<smem, shared, platform, hist, corrupt>>
       \/ Oops

\* the reads of the body, up to its first store
BodyStep ==
    /\ cpu.pc = "body"
    /\ \/ /\ LET r == Body(cpu)
             IN  cpu' = [cpu EXCEPT !.pc = "store", !.ret = r.ret,
                                    !.heap = r.heap,
                                    !.pend = Batch(r.stores),
                                    !.sb = Rest(r.stores),
                                    !.acc = HandleRead("read")]
          /\ UNCHANGED <<smem, shared, platform, hwlock, last, hist, corrupt>>
       \/ Oops

\* one issued store becomes visible
Commit ==
    /\ cpu.pc = "store"
    /\ \E st \in cpu.pend :
        /\ SetMem(ApplyStore(st, Mem))
        /\ cpu' = [cpu EXCEPT !.pend = @ \ {st}, !.done = @ \cup {st},
                              !.acc = Access("write")]
    /\ UNCHANGED <<smem, platform, hwlock, last, hist, corrupt>>

\* wmb(): the stores after it are issued once those before it are visible
Barrier ==
    /\ cpu.pc = "store"
    /\ cpu.pend = {}
    /\ cpu.sb # << >>
    /\ cpu' = [cpu EXCEPT !.pend = Batch(cpu.sb), !.sb = Rest(cpu.sb),
                          !.acc = NoAccess]
    /\ UNCHANGED <<smem, shared, platform, hwlock, last, hist, corrupt>>

\* the return that unlocks on success only
UnlockReturnOnSuccessOnly ==
    /\ cpu.pc = "store"
    /\ cpu.pend = {}
    /\ cpu.sb = << >>
    /\ hwlock' = IF cpu.locked /\ cpu.ret = "OK" THEN "free" ELSE hwlock
    /\ last' = [op |-> cpu.op, host |-> cpu.host, item |-> cpu.item,
                ret |-> cpu.ret]
    /\ cpu' = [Idle EXCEPT !.acc = IF cpu.locked THEN HandleRead("none")
                                   ELSE NoAccess]
    /\ UNCHANGED <<smem, shared, platform, hist, corrupt>>

\* hwspin_unlock_irqrestore, if the lock was taken, and the return
UnlockReturn ==
    /\ cpu.pc = "store"
    /\ cpu.pend = {}
    /\ cpu.sb = << >>
    /\ \/ /\ hwlock' = IF cpu.locked THEN "free" ELSE hwlock
          /\ last' = [op |-> cpu.op, host |-> cpu.host, item |-> cpu.item,
                      ret |-> cpu.ret]
          /\ cpu' = [Idle EXCEPT !.acc = IF cpu.locked
                                         THEN HandleRead("none")
                                         ELSE NoAccess]
          /\ UNCHANGED <<smem, shared, platform, hist, corrupt>>
       \/ cpu.locked /\ Oops

StepNext ==
    \/ Probe
    \/ Remove
    \/ CallStart
    \/ LockStep
    \/ BodyStep
    \/ Commit
    \/ Barrier
    \/ UnlockReturn
    \/ RemoteLock
    \/ RemoteUnlock

SpecSteps == Init /\ [][StepNext]_vars

\* ================================================================ claims
\* the partition (heap > 0) has no entry whose canary a peer overwrote
Clean(heap) == heap > 0 => Corrupted(heap) = {}

\* C1: an alloc of an item not allocated before that succeeds is followed
\* by a get of the same item that succeeds and reports the size asked for,
\* for every size, 0 included; stated here for the two partition paths (a
\* peer's partition and the global partition).
C1_AllocThenGet ==
    (last.op = "alloc" /\ last.ret = "OK" /\ ~last.had /\ last.heap > 0
     /\ Clean(last.heap))
        => LET g == qcom_smem_get(smem, Mem, regions, hwlock, last.host,
                                  last.item)
           IN  g.ret = "OK" /\ g.len = last.size

\* C2: once alloc of <<heap, item>> succeeded, a later alloc of it returns
\* AlreadyExists and leaves the free space of the heap as it was.
C2_SecondAllocExists ==
    (last.op = "alloc" /\ last.had /\ Clean(last.heap))
        => last.ret = "AlreadyExists" /\ ~last.wrote
           /\ Gap(Mem, last.heap) = last.gap0

\* C3: an item whose alloc succeeded stays: every later get of it succeeds
\* with the pointer and the size of the first get.
C3_ItemPermanent ==
    \A key \in DOMAIN hist :
        Clean(key[1]) =>
            LET g == HeapGet(Mem, regions, key[1], key[2])
            IN  /\ hist[key].get.ret = "OK"
                /\ g = hist[key].get

\* C4: the forward free offset of a partition never exceeds its backward
\* free offset.
C4_ForwardBelowBackward ==
    \A k \in DOMAIN phdr :
        phdr[k].offset_free_uncached <= phdr[k].offset_free_cached

\* an entry of item lies in the forward list strictly before entry c
LocatedBefore(pm, c, item) ==
    \E e \in ForwardEntries(pm, SIZEOF_PHDR, c) : item_of(pm, e) = item

\* C7: with the canary of a forward entry overwritten, every get or alloc
\* on the partition whose item is not located strictly before that entry
\* fails with CorruptionError, wherever the entry is and whatever its size.
C7_CanaryStopsWalk ==
    (last.op \in {"alloc", "get"} /\ last.heap > 0
     /\ \E c \in Corrupted(last.heap) :
            ~LocatedBefore(pmem[last.heap], c, last.item))
        => last.ret = "CorruptionError"

\* C8: a partition alloc that asks for more than the gap between the two
\* free offsets (entry header + size rounded up to 8) fails with OutOfSpace
\* and leaves the item not found.
C8_OutOfSpace ==
    (last.op = "alloc" /\ last.heap > 0 /\ ~last.had /\ Clean(last.heap)
     /\ last.gap0 >= 0
     /\ SIZEOF_ENTRY + ALIGN(last.size, 8) > last.gap0)
        => /\ last.ret = "OutOfSpace"
           /\ HeapGet(Mem, regions, last.heap, last.item).ret = "NotFound"


\* ------------------------------------------- a peer rewrites a header
\* The header of a partition lives in the shared window: after bring-up a
\* peer that is still initialising, or stale memory, can leave any field
\* different from what the table entry says.  Each scribble is one field
\* of the header set to a value it should not have; a header is rewritten
\* once.
Scribbles(k) ==
    LET e == ptable.entry[k]
    IN  { [n |-> 1, fld |-> "magic", val |-> FALSE],
          [n |-> 2, fld |-> "host0", val |-> 9],
          [n |-> 3, fld |-> "size", val |-> e.size + 16],
          [n |-> 4, fld |-> "offset_free_uncached", val |-> e.size + 8],
          [n |-> 5, fld |-> "offset_free_cached", val |-> e.size + 8] }

SetHeaderField(ph, fld, val) ==
    CASE fld = "magic" -> [ph EXCEPT !.magic = val]
      [] fld = "host0" -> [ph EXCEPT !.host0 = val]
      [] fld = "host1" -> [ph EXCEPT !.host1 = val]
      [] fld = "size" -> [ph EXCEPT !.size = val]
      [] fld = "offset_free_uncached" ->
            [ph EXCEPT !.offset_free_uncached = val]
      [] fld = "offset_free_cached" -> [ph EXCEPT !.offset_free_cached = val]

ScribbleHeader ==
    /\ smem # NoHandle
    /\ \E k \in DOMAIN phdr :
        \E sc \in Scribbles(k) :
            /\ \A c \in corrupt : c[1] # k
            /\ phdr' = [phdr EXCEPT ![k] = SetHeaderField(@, sc.fld, sc.val)]
            /\ corrupt' = corrupt \cup {<<k, sc.n>>}
    /\ last' = [op |-> "peer"]
    /\ UNCHANGED <<smem, header, toc, ptable, pmem, platform, hwlock, hist,
                   cpu>>

\* ------------------------------------- a peer rewrites a whole partition
\* What a misbehaving peer may leave in a partition after bring-up: any
\* of these free offsets and size field in the header, an entry for item 8
\* at offset 32 and one for item 9 at offset 48, with any of these sizes
\* and paddings.  Sizes and header paddings are multiples of 8, so every
\* entry the walks reach starts on an 8-byte word.
PeerEntry(item, sizes, pads, hpads) ==
    [canary : {SMEM_PRIVATE_CANARY}, item : {item}, size : sizes,
     padding_data : pads, padding_hdr : hpads]

Contents(k) ==
    LET sz == ptable.entry[k].size
    IN  [uncached : {0, 32, 56, sz, sz + 8},
         cached : {24, 40, sz, sz + 8},
         size : {sz, sz + 16},
         e1 : PeerEntry(8, {0, 8, 16, Big}, {0, 3, 16}, {0, 8, 65528}),
         e2 : PeerEntry(9, {0, 8, 24}, {0, 3}, {0})]

EntryWords(e, o) ==
    IF o = 0 THEN <<e.canary, e.item, e.size>>
    ELSE <<e.padding_data, e.padding_hdr, 0>>

ScribbleContents ==
    /\ smem # NoHandle
    /\ corrupt = {}
    /\ \E k \in DOMAIN phdr :
        \E c \in Contents(k) :
            /\ phdr' = [phdr EXCEPT ![k] =
                            [@ EXCEPT !.size = c.size,
                                      !.offset_free_uncached = c.uncached,
                                      !.offset_free_cached = c.cached]]
            /\ pmem' = [pmem EXCEPT ![k] =
                            [o \in {32, 40, 48, 56} |->
                                IF o < 48 THEN EntryWords(c.e1, o - 32)
                                ELSE EntryWords(c.e2, o - 48)]]
            /\ corrupt' = {<<k, 0>>}
    /\ last' = [op |-> "peer"]
    /\ UNCHANGED <<smem, header, toc, ptable, platform, hwlock, hist, cpu>>

ContentsNext ==
    \/ Probe
    \/ ScribbleContents
    \/ Get

SpecContents == Init /\ [][ContentsNext]_vars

PeerNext ==
    \/ Probe
    \/ ScribbleHeader
    \/ Alloc
    \/ Get

SpecPeer == Init /\ [][PeerNext]_vars

\* ------------------------------------------- what bring-up may be given
\* Bring-up reads whatever the boot loader left.  The images below vary
\* what it looks at: the protocol version, the magic and the format
\* version of the partition table, its entries, the item-count descriptor
\* behind the last entry, the header of the last partition and, for the
\* legacy heap, the slot the boot loader filled for the fixed item 7.

\* num_items of a descriptor that raises the item count
InfoItems == 600

\* a partition the boot loader filled but for 8 bytes, with item 7
FullPart(e) ==
    [hdr |-> [magic |-> TRUE, host0 |-> e.host0, host1 |-> e.host1,
              size |-> e.size, offset_free_uncached |-> e.size - 8,
              offset_free_cached |-> e.size],
     mem |-> [o \in {32, 40} |->
                IF o = 32 THEN <<SMEM_PRIVATE_CANARY, 7, e.size - 56>>
                ELSE ZeroWord]]

\* a partition whose header does not carry the magic
BadPart(e) == [FullPart(e) EXCEPT !.hdr.magic = FALSE]

\* host0 is the global host and host1 is not: neither a global partition
\* nor one of this processor
HalfGlobal == PtEntry(12288, PartSize, SMEM_GLOBAL_HOST, 5)
\* an unused entry: its offset is 0
UnusedGlobal == PtEntry(0, PartSize, SMEM_GLOBAL_HOST, SMEM_GLOBAL_HOST)

EntryLists ==
    { << >>, <<Private5Live>>, <<Private5Live, GlobalPart>>,
      <<HalfGlobal, Private5Live>>, <<UnusedGlobal, GlobalPart>> }

Table(magic, version, entries, info) ==
    [magic |-> magic, version |-> version,
     num_entries |-> cpu_to_le32(Len(entries)), entry |-> entries,
     info |-> info]

\* the partitions of a table, the last one with a good or a bad header
Parts(entries, good) ==
    [k \in 1..Len(entries) |->
        IF k = Len(entries) /\ ~good THEN BadPart(entries[k])
        ELSE FullPart(entries[k])]

TableImages ==
    { [initialized |-> 1, version |-> v, regions |-> OneRegion,
       available |-> 0, toc |-> << >>,
       ptable |-> Table(m, tv, el, info), parts |-> Parts(el, good)] :
        v \in {SMEM_GLOBAL_HEAP_VERSION, SMEM_GLOBAL_PART_VERSION, 13},
        m \in BOOLEAN, tv \in {1, 2}, el \in EntryLists,
        info \in {NoInfo, [magic |-> TRUE, num_items |-> InfoItems]},
        good \in BOOLEAN }

\* The slot of item 7 as the boot loader may have left it: not allocated,
\* or allocated with one of these tags (none, a reserved bit alone, the
\* base of no window, the base of the second window, that base with a
\* reserved bit), at offset 4000 with a size that fits both windows, the
\* first only, or neither.
TagSlots ==
    {ZeroSlot} \cup
    [allocated : {1}, offset : {4000}, size : {96, 104, 16384},
     aux_base : {0, 2, 4096, 393216, 393218}]

SlotImages ==
    { [initialized |-> 1, version |-> SMEM_GLOBAL_HEAP_VERSION,
       regions |-> rg, available |-> 8 * AvailWords,
       toc |-> [i \in {7} |-> slot],
       ptable |-> Table(FALSE, 0, << >>, NoInfo), parts |-> << >>] :
        rg \in {OneRegion, TwoRegions}, slot \in TagSlots }

\* a heap the boot loader did not initialise
BlankImage ==
    [initialized |-> 0, version |-> SMEM_GLOBAL_HEAP_VERSION,
     regions |-> OneRegion, available |-> 0, toc |-> << >>,
     ptable |-> Table(FALSE, 0, << >>, NoInfo), parts |-> << >>]

BringUpImages == TableImages \cup SlotImages \cup {BlankImage}

BootInit ==
    /\ smem = NoHandle
    /\ \E img \in BringUpImages :
        /\ header = [initialized |-> img.initialized, reserved |-> 0,
                     version |-> img.version * 65536,
                     free_offset |-> 8448, available |-> img.available]
        /\ toc = img.toc
        /\ ptable = img.ptable
        /\ phdr = [k \in 1..Len(img.parts) |-> img.parts[k].hdr]
        /\ pmem = [k \in 1..Len(img.parts) |-> img.parts[k].mem]
        /\ regions = img.regions
    /\ hwlock = "free"
    /\ last = NoCall
    /\ hist = << >>
    /\ corrupt = {}
    /\ cpu = Idle
    /\ big_endian \in BOOLEAN

BootNext ==
    \/ Probe
    \/ Remove
    \/ Alloc
    \/ Get

SpecBoot == BootInit /\ [][BootNext]_vars

\* ------------------------------------ a peer fills the backward region
\* This driver allocates in the forward (uncached) region only; the
\* backward (cached) region of a partition is filled by the peer.  The
\* peer modelled here lays its entries out as the walk of
\* qcom_smem_get_private expects them: the first header
\* ALIGN(sizeof(entry), cacheline) below the end of the partition, the
\* data of an entry right below its header, the next header
\* ALIGN(sizeof(entry), cacheline) below that data, and
\* offset_free_cached at the data of the last entry.

\* size of the partition of this image, in 8-byte words
CachedWords == 16

CachedPart == PtEntry(8192, 8 * CachedWords, SMEM_HOST_APPS, 5)

\* the partition with item 7, of 8 bytes, in its forward region
Item7Part(e) ==
    [hdr |-> [magic |-> TRUE, host0 |-> e.host0, host1 |-> e.host1,
              size |-> e.size, offset_free_uncached |-> 56,
              offset_free_cached |-> e.size],
     mem |-> [o \in {32, 40} |->
                IF o = 32 THEN <<SMEM_PRIVATE_CANARY, 7, 8>> ELSE ZeroWord]]

CachedImage ==
    [version |-> SMEM_GLOBAL_HEAP_VERSION, regions |-> OneRegion,
     available |-> 0,
     ptable |-> Table(TRUE, 1, <<CachedPart>>, NoInfo),
     parts |-> <<Item7Part(CachedPart)>>]

\* [size, padding_data] of the entries the peer writes
PeerSizes == {<<0, 0>>, <<8, 0>>, <<8, 3>>, <<16, 0>>}

\* the headers of the backward list, from e down to the free boundary
RECURSIVE BackwardEntries(_, _, _, _)
BackwardEntries(pm, e, cached_end, cacheline) ==
    IF e < cached_end THEN {}
    ELSE {e} \cup BackwardEntries(pm, cached_entry_next(pm, e, cacheline),
                                  cached_end, cacheline)

\* the entries of item in the forward and in the backward list of
\* partition k
InForward(k, item) ==
    {e \in ForwardEntries(pmem[k], SIZEOF_PHDR, phdr[k].offset_free_uncached) :
        item_of(pmem[k], e) = item}

InBackward(k, item) ==
    {e \in BackwardEntries(pmem[k],
                           phdr_to_first_cached_entry(phdr[k],
                                                      ptable.entry[k].cacheline),
                           phdr[k].offset_free_cached,
                           ptable.entry[k].cacheline) :
        item_of(pmem[k], e) = item}

CachedInit ==
    /\ smem = NoHandle
    /\ header = [initialized |-> 1, reserved |-> 0,
                 version |-> CachedImage.version * 65536,
                 free_offset |-> 8448, available |-> CachedImage.available]
    /\ toc = << >>
    /\ ptable = CachedImage.ptable
    /\ phdr = [k \in 1..1 |-> CachedImage.parts[k].hdr]
    /\ pmem = [k \in 1..1 |-> CachedImage.parts[k].mem]
    /\ regions = CachedImage.regions
    /\ hwlock = "free"
    /\ last = NoCall
    /\ hist = << >>
    /\ corrupt = {}
    /\ cpu = Idle
    /\ big_endian = FALSE

\* the peer allocates an item in the backward region, under the hwlock
PeerCachedAlloc ==
    /\ hwlock = "free"
    /\ \E k \in DOMAIN phdr, item \in {8, 9}, sp \in PeerSizes :
        LET cl == ptable.entry[k].cacheline
            bw == BackwardEntries(pmem[k],
                                  phdr_to_first_cached_entry(phdr[k], cl),
                                  phdr[k].offset_free_cached, cl)
            lowest == CHOOSE e \in bw : \A x \in bw : e <= x
            e == IF bw = {} THEN phdr_to_first_cached_entry(phdr[k], cl)
                 ELSE cached_entry_next(pmem[k], lowest, cl)
            w0 == <<SMEM_PRIVATE_CANARY, item, sp[1]>>
            w1 == <<sp[2], 0, 0>>
        IN  /\ InForward(k, item) = {} /\ InBackward(k, item) = {}
            /\ e - sp[1] >= phdr[k].offset_free_uncached
            /\ pmem' = [pmem EXCEPT ![k] = SetWord(SetWord(@, e, w0),
                                                   e + 8, w1)]
            /\ phdr' = [phdr EXCEPT ![k].offset_free_cached = e - sp[1]]
    /\ last' = [op |-> "peer"]
    /\ UNCHANGED <<smem, header, toc, ptable, platform, hwlock, hist, corrupt,
                   cpu>>

CachedNext ==
    \/ Probe
    \/ PeerCachedAlloc
    \/ Get

SpecCached == CachedInit /\ [][CachedNext]_vars

\* ----------------------------------------------------- C5 (SpecSteps)
\* C5, as stated: every read and write of the shared allocator state made
\* by alloc, get and free_space is made while the calling processor holds
\* the hardware spinlock.
C5_AllOpsHoldLock ==
    cpu.acc.kind # "none" => cpu.acc.held

\* C5, amended: every read and write of shared allocator state made by
\* alloc and get is made with the hardware spinlock held, from before the
\* first read to after the last write, and the lock is released on every
\* return path; free_space reads its two fields without the lock.
C5_AllocGetHoldLock ==
    /\ (cpu.acc.kind # "none" /\ cpu.acc.op \in {"alloc", "get"})
            => cpu.acc.held
    /\ (cpu.pc \in {"body", "store"} /\ cpu.op \in {"alloc", "get"})
            => hwlock = "apps"
    /\ cpu.pc \in {"idle", "lock"} => hwlock # "apps"
    /\ cpu.op = "free_space" => ~cpu.locked

C5_Witness ==
    /\ cpu.op = "alloc"
    /\ cpu.acc.kind = "write"
    /\ cpu.acc.held
    /\ \E st \in cpu.done : st.fld = "offset_free_uncached"

\* ----------------------------------------------------- C6 (SpecSteps)
\* the stores of the call in flight that other processors do not see yet
Unseen == cpu.pend \cup {cpu.sb[i] : i \in 1..Len(cpu.sb)}

\* a store to a field of an entry header or of a table slot
IsField(st) ==
    st.fld \in {"canary", "item", "size", "padding_data", "padding_hdr",
                "offset"}

\* whether a reader without the lock takes the record of the store as
\* allocated: below the forward free offset, or its allocated flag set
Observable(st) ==
    IF st.k = 0 THEN Slot(Mem, st.at).allocated # 0
    ELSE st.at < phdr[st.k].offset_free_uncached

\* C6: a reader that takes no lock never sees a partially written record:
\* while some field stores of the allocation in flight are visible and
\* others are not, its record is not yet observable (its entry is not
\* below the forward free offset, its slot's allocated flag is not set).
C6_NoPartialRecord ==
    \A st \in Unseen :
        (IsField(st) /\ \E d \in cpu.done : IsField(d)) => ~Observable(st)

\* ------------------------------------------------------------ C9 (Spec)
\* C9, as stated: alloc of an item below 8 returns Reserved, without
\* taking the lock and without touching shared memory, whatever the state.
C9_FixedItemReserved ==
    (last.op = "alloc" /\ last.item < 8)
        => last.ret = "Reserved" /\ ~last.locked /\ ~last.wrote

\* C9, amended: once the handle is present, alloc of an item below 8
\* returns Reserved without taking the lock and without touching shared
\* memory, whatever the partitions and the lock are; with the handle
\* absent it returns NotReady instead.
C9_FixedItemReservedWhenReady ==
    (last.op = "alloc" /\ last.item < 8)
        => /\ last.ret = IF smem = NoHandle THEN "NotReady" ELSE "Reserved"
           /\ ~last.locked
           /\ ~last.wrote

C9_Witness ==
    /\ smem # NoHandle
    /\ hwlock = "remote"
    /\ corrupt # {}
    /\ last.op = "alloc"
    /\ last.item = SMEM_ITEM_LAST_FIXED - 1
    /\ last.ret = "Reserved"

\* ----------------------------------------------------------- C10 (Spec)
\* the hosts a caller may name: those of the table, the first past it,
\* and none
RouteHosts == 0..SMEM_HOST_COUNT \cup {HOST_NONE}

\* the one routing function: the host's private partition if the host is
\* below 13 and has one, else the global partition if there is one, else
\* the global heap (0)
RouteOf(h, host) ==
    IF host \in 0..(SMEM_HOST_COUNT - 1) /\ h.ptable_entries[host] # NULL
    THEN h.ptable_entries[host]
    ELSE IF h.global_partition_entry # NULL
    THEN h.global_partition_entry
    ELSE 0

\* C10: alloc, get and free_space pick the heap by the same function of
\* (host, handle), so an item allocated for a host is looked up, and its
\* free space reported, in the heap it was allocated in.
C10_SameRouting ==
    /\ smem # NoHandle =>
        \A host \in RouteHosts :
            /\ AllocRoute(smem, host) = RouteOf(smem, host)
            /\ GetRoute(smem, host) = RouteOf(smem, host)
            /\ FreeSpaceRoute(smem, host) = RouteOf(smem, host)
    /\ (last.op \in {"alloc", "get", "free_space"} /\ last.heap # NoHeap)
            => last.heap = RouteOf(smem, last.host)
    /\ (last.op = "alloc" /\ last.ret = "OK")
            => /\ qcom_smem_get(smem, Mem, regions, "free", last.host,
                                last.item).heap = last.heap
               /\ qcom_smem_get_free_space(smem, Mem, regions,
                                           last.host).heap = last.heap

C10_Witness ==
    /\ smem # NoHandle
    /\ smem.ptable_entries[5] # NULL
    /\ smem.global_partition_entry # NULL
    /\ last.op = "alloc"
    /\ last.ret = "OK"
    /\ last.host = HOST_NONE
    /\ last.heap = smem.global_partition_entry
    /\ GetRoute(smem, 5) = smem.ptable_entries[5]


\* ----------------------------------------------------------- C11 (Spec)
\* C11: while the handle is absent, alloc, get and free_space return
\* NotReady without taking the lock, and virt_to_phys returns none; none
\* of them reads through the handle or touches shared memory.
C11_NotReadyWithoutHandle ==
    smem = NoHandle =>
        /\ last.op \in {"alloc", "get", "free_space"}
                => last.ret = "NotReady" /\ ~last.locked
        /\ last.op = "alloc" => ~last.wrote
        /\ last.op = "virt_to_phys" => last.ret = "none"


\* ------------------------------------------------------ C12 (SpecSteps)
\* C12: whatever teardown does while a call is in flight, no step of an
\* alloc, get or free_space that passed its handle-present check reads the
\* handle (its entries, its regions, its lock reference) after
\* qcom_smem_remove has freed it.
C12_NoUseAfterTeardown ==
    ~cpu.acc.freed


\* ----------------------------------------------------------- C13 (Spec)
\* C13: an alloc or get that passes its argument checks while another
\* processor holds the hardware lock returns LockTimeout, and a call that
\* returns LockTimeout leaves shared memory and the handle exactly as they
\* were.
C13_TimeoutChangesNothing ==
    [][(last'.op \in {"alloc", "get"} /\ hwlock # "free")
         => /\ last'.ret \in {"NotReady", "Reserved", "OutOfRange",
                              "LockTimeout"}
            /\ ~last'.locked
            /\ UNCHANGED <<shared, smem, hwlock>>]_vars

C13_Witness ==
    /\ hwlock = "remote"
    /\ last.op = "alloc"
    /\ last.ret = "LockTimeout"
    /\ qcom_smem_alloc(smem, Mem, "free", last.host, last.item,
                       last.size).ret = "OK"


\* ----------------------------------------------------------- C15 (Spec)
\* C15: an alloc that returns an error, and every get whatever it
\* returns, leaves all of shared memory and the handle unchanged.
C15_ErrorsChangeNothing ==
    [][((last'.op = "alloc" /\ last'.ret # "OK") \/ last'.op = "get")
         => UNCHANGED <<shared, smem>>]_vars

C15_Witness ==
    /\ last.op = "alloc"
    /\ last.ret = "OutOfSpace"
    /\ last.heap > 0
    /\ last.gap0 > 0

\* ----------------------------------------------------------- C16 (Spec)
\* C16: after a successful alloc in a partition, free_space of the same
\* host reports exactly 16 + (size rounded up to 8) bytes less than before
\* the call.
C16_FreeSpaceDrop ==
    (last.op = "alloc" /\ last.ret = "OK" /\ last.heap > 0)
        => LET f == qcom_smem_get_free_space(smem, Mem, regions, last.host)
           IN  /\ f.ret = "OK"
               /\ f.val = last.gap0 - (SIZEOF_ENTRY + ALIGN(last.size, 8))

\* ----------------------------------------------------------- C17 (Spec)
\* C17: a successful alloc in a partition writes the new entry header at
\* exactly the forward free offset as it was before the call, never below
\* it.
C17_HeaderAtFreeOffset ==
    (last.op = "alloc" /\ last.ret = "OK" /\ last.heap > 0)
        => last.hdr = last.end0


\* ----------------------------------------------------------- C19 (Spec)
\* C19: the bytes of two distinct items allocated in the same partition,
\* or both in the global heap, never overlap: no alloc writes over the
\* header or the payload of an item allocated before it.
C19_SpansDisjoint ==
    \A a, b \in DOMAIN hist :
        (a # b /\ a[1] = b[1])
            => \/ hist[a].span.hi <= hist[b].span.lo
               \/ hist[b].span.hi <= hist[a].span.lo

\* ----------------------------------------------------------- C20 (Spec)
\* C20: an alloc routed to the global heap returns AlreadyExists if the
\* slot is allocated; else OutOfMemory exactly when the size rounded up to
\* 8 exceeds the remaining counter; else it sets the slot's offset to the
\* old bump offset, its size to the rounded size and its flag, advances
\* the bump offset and lowers the remaining counter by the rounded size,
\* so that their sum stays the same.
C20_GlobalAlloc ==
    [][(last'.op = "alloc" /\ last'.heap = 0)
         => LET item == last'.item
                rs == ALIGN(last'.size, 8)
            IN  IF Slot(Mem, item).allocated # 0
                THEN last'.ret = "AlreadyExists" /\ UNCHANGED shared
                ELSE IF rs > header.available
                THEN last'.ret = "OutOfMemory" /\ UNCHANGED shared
                ELSE /\ last'.ret = "OK"
                     /\ toc'[item] = [ZeroSlot EXCEPT
                                        !.allocated = 1,
                                        !.offset = header.free_offset,
                                        !.size = rs]
                     /\ \A x \in DOMAIN toc : x # item => toc'[x] = toc[x]
                     /\ header'.free_offset = header.free_offset + rs
                     /\ header'.available = header.available - rs
                     /\ header'.free_offset + header'.available
                            = header.free_offset + header.available
                     /\ UNCHANGED <<ptable, phdr, pmem>>]_vars

C20_Witness ==
    /\ last.op = "alloc"
    /\ last.heap = 0
    /\ last.ret = "OK"
    /\ last.size = 5
    /\ last.end0 > 8448
    /\ \E x \in DOMAIN toc : x # last.item /\ toc[x].allocated # 0


\* -------------------------------------------------------- C14 (SpecPeer)
\* The header of partition k was, when the last call was made, no longer
\* the one its table entry describes (an alloc changes the forward free
\* offset only, which last.end0 holds as it was).
HeaderBad(k) ==
    LET before == IF last.op = "alloc" THEN last.end0
                  ELSE phdr[k].offset_free_uncached
        M == [Mem EXCEPT !.phdr[k].offset_free_uncached = before]
    IN  ~qcom_smem_partition_header(M, k, ptable.entry[k].host0,
                                    ptable.entry[k].host1)

\* the last call was an alloc or a get that reached partition last.heap
RoutedToPartition ==
    last.op \in {"alloc", "get"} /\ last.heap > 0

OffsetsBad ==
    \/ (IF last.op = "alloc" THEN last.gap0 ELSE Gap(Mem, last.heap)) < 0
    \/ phdr[last.heap].offset_free_cached > ptable.entry[last.heap].size

C18_GetStaysInside ==
    (last.op = "get" /\ last.heap > 0)
        => LET k == last.heap
               entry == ptable.entry[k]
               reads == GetReads(Mem, k, last.item)
               rel == last.ptr.off - entry.offset
           IN  /\ \A e \in reads : e >= 0 /\ e + SIZEOF_ENTRY <= entry.size
               /\ last.ret = "OK" =>
                    /\ rel >= 0
                    /\ rel + last.len <= entry.size
                    /\ \E e \in reads :
                        /\ item_of(pmem[k], e) = last.item
                        /\ \/ /\ e + SIZEOF_ENTRY <= rel
                              /\ rel + last.len
                                    <= phdr[k].offset_free_uncached
                           \/ /\ phdr[k].offset_free_cached <= rel
                              /\ rel + last.len <= e

\* a backward item found in a partition a peer rewrote
C18_Witness ==
    /\ corrupt # {}
    /\ last.op = "get"
    /\ last.heap > 0
    /\ last.ret = "OK"
    /\ last.len = 5
    /\ last.ptr.off - ptable.entry[last.heap].offset
            >= phdr[last.heap].offset_free_cached
    /\ phdr[last.heap].offset_free_cached > phdr[last.heap].offset_free_uncached

\* ------------------------------------------------------- C21 (SpecBoot)
\* the regions whose aux_base is the tag
Matching(tag) == {i \in 1..Len(regions) : regions[i].aux_base = tag}

\* what C21 says of a get that reached the legacy heap, tag being the tag
\* of the slot as the claim reads it
GlobalGetAsClaimed(tag) ==
    LET slot == Slot(Mem, last.item)
    IN  /\ slot.allocated = 0 => last.ret = "NotFound"
        /\ (tag # 0 /\ Matching(tag) = {}) => last.ret = "NotFound"
        /\ last.ret = "NotFound"
              => slot.allocated = 0 \/ (tag # 0 /\ Matching(tag) = {})
        /\ last.ret = "OK"
              => /\ tag = 0 => last.ptr.region = 1
                 /\ tag # 0 => last.ptr.region \in Matching(tag)
                 /\ slot.offset + slot.size <= regions[last.ptr.region].size
                 /\ last.ptr.off = slot.offset

\* with no partition entries, a successful alloc on the legacy heap is
\* followed by a get that succeeds with a pointer inside region 0
AllocThenGlobalGet ==
    (last.op = "alloc" /\ last.ret = "OK" /\ last.heap = 0)
        => LET g == qcom_smem_get(smem, Mem, regions, hwlock, last.host,
                                  last.item)
           IN  /\ g.ret = "OK" /\ g.heap = 0
               /\ g.ptr.region = 1
               /\ g.ptr.off + g.len <= regions[1].size

\* C21, as stated: a get on the legacy heap returns NotFound if the slot's
\* allocated flag is clear or its nonzero tag (the aux_base field) is the
\* base of no region; tag 0 resolves to region 0; on success offset + size
\* fits the resolved region and the pointer is its base plus the offset;
\* alloc then get on a heap without partitions gives a pointer in region 0.
C21_TagMatchesRegion ==
    /\ (last.op = "get" /\ last.heap = 0)
            => GlobalGetAsClaimed(Slot(Mem, last.item).aux_base)
    /\ AllocThenGlobalGet

\* C21, amended: the same with the tag taken as the aux_base field with
\* its two low (reserved) bits cleared: a field of 1, 2 or 3 resolves to
\* region 0 like a field of 0, and a region's base with a reserved bit set
\* resolves to that region.
C21_MaskedTagMatchesRegion ==
    /\ (last.op = "get" /\ last.heap = 0)
            => GlobalGetAsClaimed((Slot(Mem, last.item).aux_base \div 4) * 4)
    /\ AllocThenGlobalGet

\* a get resolved to the second region through a tag with a reserved bit
C21_Witness ==
    /\ last.op = "get" /\ last.heap = 0 /\ last.ret = "OK"
    /\ last.ptr.region = 2
    /\ Slot(Mem, last.item).aux_base % 4 # 0

\* ----------------------------------------------------- C22 (SpecCached)
\* C22: a get on a partition searches the forward region first and the
\* backward region only for an id not in the forward region: such a get
\* returns NotFound when the backward free offset is the partition end,
\* and, when the peer left a well-formed entry of the id in the backward
\* region, returns pointer = entry address - stored size and size = stored
\* size - stored padding; an id found in the forward region is answered
\* from there.
C22_BackwardLookup ==
    (last.op = "get" /\ last.heap > 0)
        => LET k == last.heap
               pm == pmem[k]
               fw == InForward(k, last.item)
               bw == InBackward(k, last.item)
           IN  /\ (fw = {} /\ phdr[k].offset_free_cached = ptable.entry[k].size)
                    => last.ret = "NotFound"
               /\ (fw = {} /\ bw # {})
                    => \E e \in bw :
                        /\ last.ret = "OK"
                        /\ last.ptr = PartPtr(ptable.entry[k],
                                              e - size_of(pm, e))
                        /\ last.len = size_of(pm, e) - padding_data(pm, e)
               /\ (fw # {} /\ last.ret = "OK")
                    => last.ptr.off - ptable.entry[k].offset
                            < phdr[k].offset_free_uncached

\* ------------------------------------------------------ C23 (SpecSteps)
\* the results of alloc and get before the lock is asked for or had, and
\* those of the paths that hold it
EarlyResults == {"NotReady", "Reserved", "OutOfRange", "LockTimeout"}
LockedResults ==
    {"OK", "AlreadyExists", "OutOfSpace", "OutOfMemory", "NotFound",
     "FormatError", "CorruptionError"}

\* C23: an alloc or get that acquired the hwlock releases it exactly once,
\* at its return, whatever it returns (success, AlreadyExists, OutOfSpace,
\* OutOfMemory, NotFound, FormatError, CorruptionError); one that returns
\* before the acquisition (NotReady, Reserved, OutOfRange, LockTimeout)
\* leaves the lock as it is; no call returns with the lock still held.
C23_LockReleasedOnce ==
    [][/\ \* the return of a call in flight
          (cpu.pc \notin {"idle", "dead"} /\ cpu'.pc = "idle")
            => IF cpu.locked
               THEN /\ hwlock = "apps" /\ hwlock' = "free"
                    /\ last'.op \in {"alloc", "get"}
                    /\ last'.ret \in LockedResults
               ELSE /\ hwlock' = hwlock
                    /\ last'.op \in {"alloc", "get"}
                            => last'.ret = "LockTimeout"
       /\ \* the return of a call that fails its first tests
          (cpu.pc = "idle" /\ cpu'.pc = "idle"
           /\ last'.op \in {"alloc", "get"} /\ last' # last)
            => last'.ret \in EarlyResults /\ hwlock' = hwlock
       /\ \* the lock leaves this processor at the return of a call only
          (hwlock = "apps" /\ hwlock' # "apps")
            => cpu.locked /\ cpu'.pc = "idle" /\ hwlock' = "free"
       /\ \* and is taken by a call that did not hold it
          (hwlock # "apps" /\ hwlock' = "apps")
            => ~cpu.locked /\ cpu'.locked /\ cpu.op \in {"alloc", "get"}
       /\ cpu'.pc = "idle" => hwlock' # "apps"]_vars

\* a get that held the lock has returned NotFound and the lock is free
C23_Witness ==
    /\ cpu.pc = "idle" /\ cpu.acc.held /\ cpu.acc.op = "get"
    /\ last.op = "get" /\ last.ret = "NotFound"
    /\ hwlock = "free"

\* ------------------------------------------------------- C24 (SpecBoot)
\* the protocol version the boot loader left in the version vector
SblVersion == qcom_smem_get_sbl_version(Mem) \div 65536

\* C24: an alloc or get that falls through to the legacy global heap
\* indexes the slot table with an item below SMEM_ITEM_COUNT (512), for
\* every handle of a successful bring-up: the item count of a handle
\* differs from 512 only for version 12, and a version 12 handle always
\* has a global partition entry, so the table is then never indexed.
C24_SlotIndexInTable ==
    /\ (last.op \in {"alloc", "get"} /\ last.heap = 0)
            => last.item < SMEM_ITEM_COUNT
    /\ (smem # NoHandle /\ smem.item_count # SMEM_ITEM_COUNT)
            => SblVersion = SMEM_GLOBAL_PART_VERSION
    /\ (smem # NoHandle /\ SblVersion = SMEM_GLOBAL_PART_VERSION)
            => smem.global_partition_entry # NULL

\* a get of an item at or above 512 was accepted and went to the global
\* partition
C24_Witness ==
    /\ last.op = "get" /\ last.item >= SMEM_ITEM_COUNT
    /\ last.locked /\ last.heap > 0
    /\ smem # NoHandle /\ last.heap = smem.global_partition_entry

\* ------------------------------------------------------- C25 (SpecBoot)
\* table entry k names the global host twice and has an offset and a size
IsGlobalEntry(k) ==
    /\ k \in 1..le32_to_cpu(ptable.num_entries)
    /\ ptable.entry[k].host0 = SMEM_GLOBAL_HOST
    /\ ptable.entry[k].host1 = SMEM_GLOBAL_HOST
    /\ ptable.entry[k].offset # 0
    /\ ptable.entry[k].size # 0

\* C25: bring-up dispatches three ways on the version of the version
\* vector: 11 gives a handle without global partition entry and with item
\* count 512; 12 gives a handle only if the partition table is there with a
\* (global, global) entry of nonzero offset and size whose header
\* validates; any other version fails.  The handle is visible only once
\* every validation and the lock request succeeded, and is absent after a
\* failed bring-up.
C25_ThreeWayBringUp ==
    /\ smem # NoHandle
        => /\ header.initialized = 1 /\ header.reserved = 0
           /\ SblVersion \in {SMEM_GLOBAL_HEAP_VERSION,
                               SMEM_GLOBAL_PART_VERSION}
           /\ SblVersion = SMEM_GLOBAL_HEAP_VERSION
                => /\ smem.global_partition_entry = NULL
                   /\ smem.item_count = SMEM_ITEM_COUNT
           /\ SblVersion = SMEM_GLOBAL_PART_VERSION
                => /\ qcom_smem_get_ptable(Mem) = "OK"
                   /\ IsGlobalEntry(smem.global_partition_entry)
                   /\ qcom_smem_partition_header(
                            Mem, smem.global_partition_entry,
                            SMEM_GLOBAL_HOST, SMEM_GLOBAL_HOST)
           /\ qcom_smem_enumerate_partitions(Mem, SMEM_HOST_APPS).ret
                \in {"OK", "ENOENT"}
    /\ last.op = "probe"
        => /\ smem # NoHandle <=> last.ret = "OK"
           /\ smem # NoHandle => last.lock_ok

\* a version 12 bring-up has succeeded on a table whose first entry is an
\* unused (global, global) entry
C25_Witness ==
    /\ last.op = "probe" /\ last.ret = "OK" /\ smem # NoHandle
    /\ SblVersion = SMEM_GLOBAL_PART_VERSION
    /\ smem.global_partition_entry = 2
    /\ ptable.entry[1].host0 = SMEM_GLOBAL_HOST

\* ------------------------------------------------------- C26 (SpecBoot)
\* the handle has no partition of a peer, and every call is routed to the
\* legacy global heap
LegacyOnly ==
    /\ smem # NoHandle
    /\ smem.ptable_entries = NoEntries
    /\ smem.global_partition_entry = NULL
    /\ \A host \in Hosts :
            AllocRoute(smem, host) = 0 /\ GetRoute(smem, host) = 0

\* a bring-up of the legacy version, on an initialised heap, with the
\* hwspinlock to be had, has just run
LegacyBringUp ==
    /\ last.op = "probe" /\ last.lock_ok
    /\ SblVersion = SMEM_GLOBAL_HEAP_VERSION
    /\ header.initialized = 1 /\ header.reserved = 0

\* C26, as stated: when the partition table has a wrong magic or a format
\* version other than 1 the reader fails, and bring-up of the legacy
\* version treats both failures as "no partition table": it succeeds with
\* no peer partitions and routes every alloc and get to the global heap.
C26_BothFailuresNoTable ==
    (LegacyBringUp /\ qcom_smem_get_ptable(Mem) # "OK")
        => last.ret = "OK" /\ LegacyOnly

\* C26, amended: only the wrong magic is treated as "no partition table"
\* (bring-up of the legacy version succeeds, no peer partitions, every
\* alloc and get routed to the global heap); a table with the right magic
\* and a format version other than 1 makes bring-up fail with -EINVAL and
\* leaves the handle absent.
C26_OnlyMagicIsNoTable ==
    /\ (LegacyBringUp /\ ~ptable.magic)
            => last.ret = "OK" /\ LegacyOnly
    /\ (LegacyBringUp /\ ptable.magic /\ ptable.version # 1)
            => last.ret = "EINVAL" /\ smem = NoHandle
    /\ (last.op \in {"alloc", "get"} /\ last.locked
         /\ SblVersion = SMEM_GLOBAL_HEAP_VERSION /\ ~ptable.magic)
            => last.heap = 0

\* a get went to the global heap although the table behind the wrong
\* magic lists a partition of this processor
C26_Witness ==
    /\ last.op = "get" /\ last.locked /\ last.heap = 0
    /\ SblVersion = SMEM_GLOBAL_HEAP_VERSION
    /\ ~ptable.magic /\ le32_to_cpu(ptable.num_entries) > 0
    /\ LegacyOnly

\* ------------------------------------------------------- C27 (SpecBoot)
\* the item count the table in memory stands for: num_items of the
\* descriptor behind the last entry of a valid table, 512 otherwise
DescriptorCount ==
    IF qcom_smem_get_ptable(Mem) = "OK" /\ ptable.info.magic
    THEN ptable.info.num_items
    ELSE SMEM_ITEM_COUNT

\* C27: the item count of a heap instance that consults the descriptor
\* (version 12) is num_items of the descriptor that follows the last entry
\* of a valid partition table with the right magic, and 512 otherwise; the
\* descriptor is found through the entry count decoded as little-endian,
\* so the same table gives the same count on either byte order of the
\* host, and bring-up reads nothing outside the table to find it.
C27_CountFromDescriptor ==
    /\ (smem # NoHandle /\ SblVersion = SMEM_GLOBAL_PART_VERSION)
            => smem.item_count = DescriptorCount
    /\ last.op = "probe" => last.ret # "Oops"

=============================================================================
